---------------------------- MODULE Spec2Model ----------------------------
(***************************************************************************)
(* Model of the dash-cam movie maker: get_videos (time-windowed grouping   *)
(* of the input directory), VideoGroup.make_video (pairing, batching, one  *)
(* encoder run per batch, one merge run) and the render loop of __main__.  *)
(*                                                                         *)
(* Time is counted in ticks of 30 minutes from an arbitrary origin, so     *)
(* that the two-hour window of get_videos is 4 ticks.                      *)
(***************************************************************************)
EXTENDS Integers, Sequences, FiniteSets, TLC

VARIABLES
    pc,         \* position of the program: scanning, rendering, raised, ...
    files,      \* get_videos: the files iterated so far, with what the probe gave
    videos,     \* get_videos: `videos`; __main__: `vs` (the list of VideoGroup)
    probe_cmd,  \* PROBE.cmd, as the input files it names after [probe_path]
    next_v,     \* __main__: index into vs of the group the for loop takes next
    fs,         \* the output files that exist in the working directory
    runs,       \* every encoder process started so far, in order
    batches     \* make_video: the pairs and `batches` of the last call

vars == <<pc, files, videos, probe_cmd, next_v, fs, runs, batches>>

----------------------------------------------------------------------------
(* Bounds of the model *)

MaxFiles == 3          \* files in the input directory
MaxTime == 6           \* timestamps of file names range over 0..MaxTime ticks

(* Program constants *)

GapTicks == 4          \* datetime.timedelta(hours=2), in ticks of 30 minutes
BatchSize == 4         \* front_and_back_videos[i : i + 4]
DurationSeconds == 60  \* what a successful probe of a one-minute clip returns

(* Python's Optional: None is the empty sequence, a value x is <<x>> *)
None == << >>
Some(x) == <<x>>
Value(opt) == opt[1]

\* the module run with its debug switch left on
DebugOn == TRUE

\* DEBUG = False
DEBUG == FALSE

----------------------------------------------------------------------------
(* Files of the input directory.  A file is its name: `name` stands for    *)
(* the whole path (the position in the listing keeps names distinct),      *)
(* `prefix` for the first 15 characters of the stem, `hasA` and `hasP`     *)
(* for the letters "A" and "P" occurring in the stem.                      *)

(* A prefix in the format %Y%m%d_%H%M%S is <<t>>, t the tick it names; any  *)
(* other prefix is << >>.                                                  *)

Prefixes == {<<t>> : t \in 0..MaxTime} \cup {<< >>}

\* get_videos never reads the "P" of a name (Video.type_), so the scan draws
\* its files without it; make_video is given Parked clips (MakeVideoInit).
FileNames(n) ==
    [name : {n}, prefix : Prefixes, hasA : BOOLEAN, hasP : {FALSE}]

Parses(file) == Len(file.prefix) = 1

\* strptime(file.name.split(".")[0][:15], "%Y%m%d_%H%M%S"); ValueError when
\* the prefix is not a timestamp (callers test Parses first).
datetime_from_file_name(file) == file.prefix[1]

----------------------------------------------------------------------------
(* PROBE *)

\* What the ffprobe process can answer for a command naming the input files
\* `inputs`: a duration on stdout with exit code 0, or a failure (non-zero
\* exit, or text that float() rejects).  ffprobe takes one input file and
\* rejects a command line that names a second one.
FfprobeAnswers(inputs) ==
    IF Len(inputs) = 1 THEN {Some(DurationSeconds), None} ELSE {None}

\* PROBE.get_media_duration: the command is extended, run, and reset only
\* when the run and the parse of its output succeeded.
ProbeCmdAfter(cmd, file, answer) ==
    IF answer = None THEN Append(cmd, file.name) ELSE << >>

\* Video.__init__
Video(file, answer) ==
    [path |-> file.name,
     type_ |-> IF file.hasP THEN "Parked" ELSE "Moving",
     view_point |-> IF file.hasA THEN "Front" ELSE "Back",
     duration_seconds |-> answer]

----------------------------------------------------------------------------
(* FFMPEG, the command builder.  `cmd` is the argument vector after the    *)
(* program name: the -i inputs, the compiled -filter_complex graph, the    *)
(* -map arguments and the output files (the fixed encoder settings are     *)
(* left out).  A stream label is <<kind, n>>: <<":v", 2>> is "2:v",         *)
(* <<":a", 2>> is "2:a", <<"a_", 2>> is "a_2", and the names without a     *)
(* number carry 0: <<"front_v", 0>> is "front_v", <<"v", 0>> is "v".        *)

\* FFMPEG._set_defaults
FFMPEG_defaults ==
    [cmd |-> [inputs |-> << >>, graph |-> << >>, maps |-> << >>,
              outputs |-> << >>],
     filter_complex |-> << >>,
     maps |-> << >>,
     input_count |-> 0,
     output_added |-> FALSE]

\* FFMPEG.reset without its call of _set_defaults
resetNothing(ff) == ff

\* FFMPEG.reset
reset(ff) == FFMPEG_defaults

\* FFMPEG.add_input (start_from is None)
add_input(ff, input_file) ==
    [ff EXCEPT !.cmd.inputs = Append(@, input_file),
               !.input_count = @ + 1]

\* FFMPEG.current_input_index
current_input_index(ff) == ff.input_count - 1

\* FFMPEG.create_silent_audio_stream
create_silent_audio_stream(ff, output, duration) ==
    [ff EXCEPT !.filter_complex =
        Append(@, [op |-> "anullsrc", in |-> << >>, out |-> <<output>>,
                   arg |-> duration])]

\* FFMPEG.concat: the labels of the inputs, video and audio as asked for
ConcatLabels(input, output_video, output_audio) ==
    IF input = << >> THEN << >>
    ELSE LET n == Len(input)
             per == (IF output_video # None THEN 1 ELSE 0)
                    + (IF output_audio # None THEN 1 ELSE 0)
         IN  [k \in 1..(n * per) |->
                 LET i == ((k - 1) \div per) + 1
                     j == ((k - 1) % per) + 1
                 IN  IF output_video # None /\ j = 1 THEN input[i][1]
                     ELSE input[i][2]]

concat(ff, input, output_video, output_audio) ==
    [ff EXCEPT !.filter_complex =
        Append(@, [op |-> "concat",
                   in |-> ConcatLabels(input, output_video, output_audio),
                   out |-> output_video \o output_audio,
                   arg |-> Len(input)])]

\* FFMPEG.scale
scale(ff, input, output) ==
    [ff EXCEPT !.filter_complex =
        Append(@, [op |-> "scale_cuda", in |-> <<input>>, out |-> <<output>>,
                   arg |-> 0])]

\* FFMPEG.overlay
overlay(ff, background, overlay_, output) ==
    [ff EXCEPT !.filter_complex =
        Append(@, [op |-> "overlay_cuda", in |-> <<background, overlay_>>,
                   out |-> <<output>>, arg |-> 0])]

\* FFMPEG.map
map(ff, input) == [ff EXCEPT !.maps = Append(@, input)]

\* FFMPEG.add_output (with _add_settings and _add_filter_complex)
add_output(ff, output_file) ==
    LET withGraph ==
            IF ff.filter_complex # << >>
            THEN [ff EXCEPT !.cmd.graph = ff.filter_complex,
                            !.cmd.maps = @ \o ff.maps]
            ELSE ff
    IN  [withGraph EXCEPT !.cmd.outputs = Append(@, output_file),
                          !.output_added = TRUE]

\* FFMPEG.run with the check of the exit code left out
RunNeverRaises(returncode) == FALSE

\* FFMPEG.run: RuntimeError when the process exits non-zero
RunRaises(returncode) == returncode # 0

----------------------------------------------------------------------------
(* VideoGroup *)

\* start_time.strftime("%d %b %Y %H-%M-%S")
Title(start_time) == <<"title", start_time>>

\* VideoGroup.add_video, given the Video it constructs
add_video(group, video) ==
    IF video.duration_seconds = None THEN group
    ELSE IF video.view_point = "Front"
         THEN [group EXCEPT !.front_videos = Append(@, video)]
         ELSE [group EXCEPT !.back_videos = Append(@, video)]

\* VideoGroup.__init__ with videos=[file]
NewVideoGroup(start_time, end_time, video) ==
    add_video([start_time |-> start_time,
               end_time |-> end_time,
               front_videos |-> << >>,
               back_videos |-> << >>,
               final_video |-> None,
               ffmpeg |-> FFMPEG_defaults,
               title |-> Title(start_time)], video)

----------------------------------------------------------------------------
(* get_videos *)

\* the window test with the boundary let in (<= for <)
AcceptsAtBoundary(group, file_datetime) ==
    file_datetime - GapTicks <= group.end_time

\* the test of the inner loop
Accepts(group, file_datetime) == file_datetime - GapTicks < group.end_time

Accepting(groups, file_datetime) ==
    {i \in 1..Len(groups) : Accepts(groups[i], file_datetime)}

Min(S) == CHOOSE x \in S : \A y \in S : x <= y
Max(S) == CHOOSE x \in S : \A y \in S : x >= y

\* the inner loop scanning the groups from the newest
FoundGroupNewest(groups, file_datetime) ==
    Max({i \in 1..Len(groups) :
            file_datetime - GapTicks < groups[i].end_time})

\* the group the inner loop stops at (callers test Accepting # {})
FoundGroup(groups, file_datetime) == Min(Accepting(groups, file_datetime))

\* the inner loop without its break: every group of the window takes the file
GroupedNoBreak(groups, file, video) ==
    LET file_datetime == datetime_from_file_name(file) IN
    IF \E i \in 1..Len(groups) : file_datetime - GapTicks < groups[i].end_time
    THEN [i \in 1..Len(groups) |->
            IF file_datetime - GapTicks < groups[i].end_time
            THEN add_video([groups[i] EXCEPT !.end_time = file_datetime], video)
            ELSE groups[i]]
    ELSE Append(groups, NewVideoGroup(file_datetime, file_datetime, video))

\* one iteration of the loop over the files, for a file whose name parses
Grouped(groups, file, video) ==
    LET file_datetime == datetime_from_file_name(file) IN
    IF Accepting(groups, file_datetime) # {}
    THEN LET i == FoundGroup(groups, file_datetime) IN
         [groups EXCEPT
            ![i] = add_video([@ EXCEPT !.end_time = file_datetime], video)]
    ELSE Append(groups, NewVideoGroup(file_datetime, file_datetime, video))

\* `batches` before any call of make_video
NoCall == [group |-> 0, pairs |-> << >>, batches |-> << >>]

ScanInit ==
    /\ pc = "scan"
    /\ files = << >>
    /\ videos = << >>
    /\ probe_cmd = << >>
    /\ next_v = 1
    /\ fs = {}
    /\ runs = << >>
    /\ batches = NoCall

\* the next file of the listing has a name that strptime rejects: the
\* ValueError leaves get_videos and the program
ScanRaise ==
    /\ pc = "scan"
    /\ Len(files) < MaxFiles
    /\ \E file \in FileNames(Len(files) + 1) :
         /\ ~Parses(file)
         /\ files' = Append(files, [file |-> file, duration_seconds |-> None,
                                    probed |-> FALSE])
    /\ pc' = "raised"
    /\ UNCHANGED <<videos, probe_cmd, next_v, fs, runs, batches>>

\* the next file of the listing is grouped
ScanFile ==
    /\ pc = "scan"
    /\ Len(files) < MaxFiles
    /\ \E file \in FileNames(Len(files) + 1) :
         /\ Parses(file)
         /\ \E answer \in FfprobeAnswers(Append(probe_cmd, file.name)) :
              /\ files' = Append(files, [file |-> file,
                                         duration_seconds |-> answer,
                                         probed |-> TRUE])
              /\ probe_cmd' = ProbeCmdAfter(probe_cmd, file, answer)
              /\ videos' = Grouped(videos, file, Video(file, answer))
    /\ UNCHANGED <<pc, next_v, fs, runs, batches>>

\* the listing is exhausted: get_videos returns
ScanReturn ==
    /\ pc = "scan"
    /\ pc' = "scanned"
    /\ UNCHANGED <<files, videos, probe_cmd, next_v, fs, runs, batches>>

ScanNext == ScanRaise \/ ScanFile \/ ScanReturn

Spec == ScanInit /\ [][ScanNext]_vars

----------------------------------------------------------------------------
(* VideoGroup.make_video *)

MaxClips == 9          \* front (and back) clips of the group of one call
MaxGroups == 2         \* groups in the list the render loop walks
MaxRenderClips == 1    \* front (and back) clips of a group of that list
MaxStart == 1          \* start times of those groups range over 0..MaxStart

\* pathlib.Path(f"{self.title}.mp4") and pathlib.Path(f"{self.title}_{index}.mp4")
FinalFile(title) == [title |-> title, index |-> None]
BatchFile(title, index) == [title |-> title, index |-> Some(index)]

\* the early return of make_video
SkipsRender(final_output_file, existing) ==
    final_output_file \in existing /\ ~DEBUG

\* list(zip(self.front_videos, self.back_videos))
Zip(front, back) ==
    [i \in 1..(IF Len(front) <= Len(back) THEN Len(front) ELSE Len(back)) |->
        <<front[i], back[i]>>]

\* pairs[i : i + n] for a 0-based i, as Python clamps the slice
Slice(pairs, i, n) ==
    SubSeq(pairs, i + 1, IF i + n <= Len(pairs) THEN i + n ELSE Len(pairs))

\* the comprehension with slices one pair short of the step
BatchesShortSlice(pairs) ==
    LET starts == {i \in 0..(Len(pairs) - 1) : i % BatchSize = 0}
    IN  [k \in 1..Cardinality(starts) |->
            Slice(pairs, (k - 1) * BatchSize, BatchSize - 1)]

\* [pairs[i : i + 4] for i in range(0, len(pairs), 4)]
Batches(pairs) ==
    LET starts == {i \in 0..(Len(pairs) - 1) : i % BatchSize = 0}
    IN  [k \in 1..Cardinality(starts) |->
            Slice(pairs, (k - 1) * BatchSize, BatchSize)]

\* Video.add_as_ffmpeg_input without its call of add_audio_stream
add_as_ffmpeg_inputNoSilence(ff, video) ==
    LET added == add_input(ff, video.path)
        n == current_input_index(added)
    IN  [ff |-> added, streams |-> << <<":v", n>>, <<":a", n>> >>]

\* Video.add_as_ffmpeg_input with Video.add_audio_stream: the builder after
\* it and the (video, audio) stream labels the clip now carries
add_as_ffmpeg_input(ff, video) ==
    LET added == add_input(ff, video.path)
        n == current_input_index(added)
    IN  IF video.type_ = "Parked" /\ video.view_point = "Front"
        THEN [ff |-> create_silent_audio_stream(added, <<"a_", n>>,
                                                Value(video.duration_seconds)),
              streams |-> << <<":v", n>>, <<"a_", n>> >>]
        ELSE [ff |-> added,
              streams |-> << <<":v", n>>, <<":a", n>> >>]

\* the loop `for front_video, back_video in batch`
RECURSIVE AddPairs(_, _)
AddPairs(ff, batch) ==
    IF batch = << >> THEN [ff |-> ff, front |-> << >>, back |-> << >>]
    ELSE LET prev == AddPairs(ff, SubSeq(batch, 1, Len(batch) - 1))
             pair == batch[Len(batch)]
             f == add_as_ffmpeg_input(prev.ff, pair[1])
             b == add_as_ffmpeg_input(f.ff, pair[2])
         IN  [ff |-> b.ff,
              front |-> Append(prev.front, f.streams),
              back |-> Append(prev.back, b.streams)]

\* the body of the loop over the batches, up to add_output
BuildBatch(ff, batch, output_file) ==
    LET in == AddPairs(reset(ff), batch)
        c1 == concat(in.ff, in.front, Some(<<"front_v", 0>>),
                     Some(<<"front_a", 0>>))
        c2 == concat(c1, in.back, Some(<<"back_v", 0>>), None)
        c3 == scale(c2, <<"back_v", 0>>, <<"back_v", 0>>)
        c4 == overlay(c3, <<"front_v", 0>>, <<"back_v", 0>>, <<"v", 0>>)
    IN  add_output(map(map(c4, <<"v", 0>>), <<"front_a", 0>>), output_file)

\* self.ffmpeg after the first k batches were built
RECURSIVE Built(_, _, _, _)
Built(ff, title, bs, k) ==
    IF k = 0 THEN ff
    ELSE BuildBatch(Built(ff, title, bs, k - 1), bs[k], BatchFile(title, k - 1))

\* the batches whose encoder was started, given the exit code of each run:
\* the loop ends at the first run that raises
Started(rc) ==
    LET raising == {k \in 1..Len(rc) : RunRaises(rc[k])}
    IN  IF raising = {} THEN Len(rc) ELSE Min(raising)

\* the merge command over the batch files collected newest first
MergeRunNewestFirst(g, title, batch_files, returncode) ==
    [group |-> g, kind |-> "merge", index |-> Len(batch_files),
     inputs |-> [k \in 1..Len(batch_files) |->
                    batch_files[Len(batch_files) + 1 - k]],
     n |-> Len(batch_files),
     graph |-> <<[op |-> "concat", in |-> << >>, out |-> << >>,
                  arg |-> Len(batch_files)]>>,
     maps |-> << >>,
     output |-> FinalFile(title), returncode |-> returncode]

\* the merge command of make_video: `cmd`, then Popen and wait
MergeRun(g, title, batch_files, returncode) ==
    [group |-> g, kind |-> "merge", index |-> Len(batch_files),
     inputs |-> batch_files, n |-> Len(batch_files),
     graph |-> <<[op |-> "concat", in |-> << >>, out |-> << >>,
                  arg |-> Len(batch_files)]>>,
     maps |-> << >>,
     output |-> FinalFile(title), returncode |-> returncode]

\* the command FFMPEG.run starts for a batch: self.cmd as add_output left it
BatchRun(g, ff, index, returncode) ==
    [group |-> g, kind |-> "batch", index |-> index,
     inputs |-> ff.cmd.inputs, n |-> Len(ff.cmd.inputs),
     graph |-> ff.cmd.graph, maps |-> ff.cmd.maps,
     output |-> ff.cmd.outputs[Len(ff.cmd.outputs)], returncode |-> returncode]

\* what the ffmpeg process of the merge can exit with: the concat filter
\* rejects n=0, so a merge of no batch file fails
MergeAnswers(batch_files) == IF batch_files = << >> THEN {1} ELSE {0, 1}

\* the files a run leaves: its output when it exits 0; when it fails, its
\* partial output or nothing
Leaves(run, partial) ==
    IF run.returncode = 0 \/ partial THEN {run.output} ELSE {}

\* make_video after process.wait(): self.final_video is set whatever the
\* exit code of the merge
MergeMarks(returncode) == TRUE

\* v.make_video() for the group the loop of __main__ is at
MakeVideo ==
    /\ pc = "render"
    /\ next_v <= Len(videos)
    /\ LET self == videos[next_v]
           final_output_file == FinalFile(self.title)
           pairs == Zip(self.front_videos, self.back_videos)
           bs == Batches(pairs)
       IN  IF SkipsRender(final_output_file, fs)
           THEN /\ next_v' = next_v + 1
                /\ UNCHANGED <<pc, videos, fs, runs, batches>>
           ELSE \E rc \in [1..Len(bs) -> {0, 1}], partial \in BOOLEAN :
                LET k == Started(rc)
                    raised == k > 0 /\ RunRaises(rc[k])
                    batch_runs ==
                        [i \in 1..k |->
                            BatchRun(next_v, Built(self.ffmpeg, self.title, bs, i),
                                     i - 1, rc[i])]
                    batch_files ==
                        [i \in 1..Len(bs) |-> BatchFile(self.title, i - 1)]
                    left == UNION {Leaves(batch_runs[i], partial) : i \in 1..k}
                    built == Built(self.ffmpeg, self.title, bs, k)
                IN  /\ batches' = [group |-> next_v, pairs |-> pairs,
                                   batches |-> bs]
                    /\ \/ /\ raised
                          /\ runs' = runs \o batch_runs
                          /\ fs' = fs \cup left
                          /\ videos' = [videos EXCEPT ![next_v].ffmpeg = built]
                          /\ pc' = "raised"
                          /\ UNCHANGED next_v
                       \/ /\ ~raised
                          /\ \E code \in MergeAnswers(batch_files) :
                               LET merge == MergeRun(next_v, self.title,
                                                     batch_files, code)
                               IN  /\ runs' = Append(runs \o batch_runs, merge)
                                   /\ fs' = fs \cup left \cup Leaves(merge, partial)
                                   /\ videos' =
                                        [videos EXCEPT
                                           ![next_v].ffmpeg = built,
                                           ![next_v].final_video =
                                              IF MergeMarks(code)
                                              THEN Some(final_output_file)
                                              ELSE @]
                          /\ next_v' = next_v + 1
                          /\ UNCHANGED pc
    /\ UNCHANGED <<files, probe_cmd>>

\* the loop of __main__ has walked the whole list
RenderDone ==
    /\ pc = "render"
    /\ next_v > Len(videos)
    /\ pc' = "done"
    /\ UNCHANGED <<files, videos, probe_cmd, next_v, fs, runs, batches>>

RenderNext == MakeVideo \/ RenderDone

\* A group as get_videos leaves it: `front` Front clips and `back` Back
\* clips, all probed, with paths that no other group `g` of the list has.
\* The names of its files all hold a "P", or none does, or ("Mixed") every
\* other one does, starting with the first of each side.
ClipType(type_, i) ==
    IF type_ = "Mixed" THEN (IF i % 2 = 1 THEN "Parked" ELSE "Moving")
    ELSE type_

RenderClip(path, view_point, type_) ==
    [path |-> path, type_ |-> type_, view_point |-> view_point,
     duration_seconds |-> Some(DurationSeconds)]

RenderGroup(g, shape, most) ==
    [start_time |-> shape.start,
     end_time |-> shape.start,
     front_videos |-> [i \in 1..shape.front |->
                          RenderClip((g - 1) * 2 * most + i, "Front",
                                     ClipType(shape.type_, i))],
     back_videos |-> [i \in 1..shape.back |->
                          RenderClip((g - 1) * 2 * most + most + i, "Back",
                                     ClipType(shape.type_, i))],
     final_video |-> None,
     ffmpeg |-> FFMPEG_defaults,
     title |-> Title(shape.start)]

Shapes(starts, most, types) ==
    [start : starts, front : 0..most, back : 0..most, type_ : types]

\* one call of make_video on one group of up to MaxClips clips a side, in a
\* directory that holds its final file already or not
MakeVideoInit ==
    /\ pc = "render"
    /\ files = << >>
    /\ probe_cmd = << >>
    /\ next_v = 1
    /\ runs = << >>
    /\ batches = NoCall
    /\ \E shape \in Shapes({0}, MaxClips, {"Moving", "Parked", "Mixed"}) :
         /\ videos = <<RenderGroup(1, shape, MaxClips)>>
         /\ fs \in SUBSET {FinalFile(Title(0))}

SpecMakeVideo == MakeVideoInit /\ [][RenderNext]_vars

\* the render loop of __main__ over a list of up to MaxGroups groups, some of
\* them starting at the same second (two groups then have one title), in a
\* directory that holds no output yet
RenderInit ==
    /\ pc = "render"
    /\ files = << >>
    /\ probe_cmd = << >>
    /\ next_v = 1
    /\ runs = << >>
    /\ batches = NoCall
    /\ \E n \in 0..MaxGroups :
         \E shapes \in [1..n -> Shapes(0..MaxStart, MaxRenderClips, {"Moving"})] :
            videos = [g \in 1..n |-> RenderGroup(g, shapes[g], MaxRenderClips)]
    /\ fs = {}

SpecRender == RenderInit /\ [][RenderNext]_vars

----------------------------------------------------------------------------
(* Vocabulary of the statements about get_videos *)

SeqRange(q) == {q[i] : i \in 1..Len(q)}

\* the paths of the clips of a group
Paths(group) ==
    {v.path : v \in SeqRange(group.front_videos) \cup SeqRange(group.back_videos)}

\* how many places of the groups' sequences hold the clip `path`
Occurrences(groups, path) ==
    Cardinality({<<g, i>> \in (1..Len(groups)) \X (1..MaxFiles + 1) :
                    /\ i <= Len(groups[g].front_videos)
                    /\ groups[g].front_videos[i].path = path})
    + Cardinality({<<g, i>> \in (1..Len(groups)) \X (1..MaxFiles + 1) :
                    /\ i <= Len(groups[g].back_videos)
                    /\ groups[g].back_videos[i].path = path})

\* the timestamp in the name of the clip `path` (names are listing positions)
StampOf(path) == datetime_from_file_name(files[path].file)

Stamps(group) == {StampOf(p) : p \in Paths(group)}

\* the file a step of the loop has just handled
Last(q) == q[Len(q)]
Handled == Len(files') = Len(files) + 1 /\ Last(files').probed
Known(entry) == entry.probed /\ entry.duration_seconds # None

----------------------------------------------------------------------------
(* C1: every file handled by get_videos whose name parses and whose probe  *)
(* gave a duration is in exactly one place of exactly one group's          *)
(* front_videos or back_videos: no clip is lost, none is grouped twice.    *)
C1_EveryClipInOneGroup ==
    \A k \in 1..Len(files) :
        Known(files[k]) => Occurrences(videos, files[k].file.name) = 1

\* get_videos returned two groups holding three probed clips
C1_Witness ==
    /\ pc = "scanned"
    /\ Len(files) = 3
    /\ \A k \in 1..3 : Known(files[k])
    /\ Len(videos) = 2
    /\ Paths(videos[1]) = {1, 3}
    /\ Paths(videos[2]) = {2}

(* C2: in every group, whatever the order of the listing, the clips sorted *)
(* by timestamp have no two neighbours more than the two-hour gap apart:   *)
(* every timestamp but the latest has a later one at most GapTicks away.   *)
C2_NoGapInsideGroup ==
    \A g \in 1..Len(videos) :
        \A s \in Stamps(videos[g]) :
            \/ \A t \in Stamps(videos[g]) : t <= s
            \/ \E t \in Stamps(videos[g]) : s < t /\ t <= s + GapTicks

(* C3: a file whose duration cannot be probed is added to no group's       *)
(* sequences and leaves the end_time of every existing group unchanged.    *)
C3_FailedProbeLeavesGroups ==
    [][(Handled /\ Last(files').duration_seconds = None) =>
         /\ \A g \in 1..Len(videos) :
              /\ videos'[g].end_time = videos[g].end_time
              /\ videos'[g].front_videos = videos[g].front_videos
              /\ videos'[g].back_videos = videos[g].back_videos
         /\ \A g \in 1..Len(videos') :
              Last(files').file.name \notin Paths(videos'[g])]_vars

(* C4: when the timestamp of a file is less than end_time + 2 hours for    *)
(* some existing group, no group is created, the earliest-created such     *)
(* group takes the file (its end_time becomes the timestamp and a probed   *)
(* clip is appended to the sequence of its view point), and every other    *)
(* group is left as it was.                                                *)
C4_Step ==
    LET file == Last(files').file
        ts   == file.prefix[1]
        ok   == {g \in 1..Len(videos) : ts < videos[g].end_time + GapTicks}
    IN  (Handled /\ ok # {}) =>
          LET first == CHOOSE g \in ok : \A h \in ok : g <= h
              old   == videos[first]
              new   == videos'[first]
              clip  == [path |-> file.name,
                        type_ |-> IF file.hasP THEN "Parked" ELSE "Moving",
                        view_point |-> IF file.hasA THEN "Front" ELSE "Back",
                        duration_seconds |-> Last(files').duration_seconds]
          IN  /\ Len(videos') = Len(videos)
              /\ \A g \in 1..Len(videos) : g # first => videos'[g] = videos[g]
              /\ new.end_time = ts
              /\ new.start_time = old.start_time
              /\ Known(Last(files')) =>
                   IF file.hasA
                   THEN /\ new.front_videos = Append(old.front_videos, clip)
                        /\ new.back_videos = old.back_videos
                   ELSE /\ new.back_videos = Append(old.back_videos, clip)
                        /\ new.front_videos = old.front_videos

C4_EarliestGroupTakesFile == [][C4_Step]_vars

\* the third file fits the window of both groups and went to the first
C4_Witness ==
    /\ Len(files) = 3
    /\ Len(videos) = 2
    /\ Known(files[3])
    /\ Paths(videos[1]) = {1, 3}
    /\ Paths(videos[2]) = {2}
    /\ StampOf(3) < videos[2].end_time + GapTicks
    /\ StampOf(3) < StampOf(1) + GapTicks

(* C5: a file is appended to a group only if its timestamp is strictly     *)
(* less than that group's end_time plus 2 hours; a file at end_time plus   *)
(* 2 hours or later for every existing group starts a new group; and the   *)
(* files 10:00, 10:30, 13:00 (ticks 0, 1, 6) give the groups {10:00,       *)
(* 10:30} and {13:00}.                                                     *)
C5_Step ==
    LET file == Last(files').file
        ts   == file.prefix[1]
    IN  Handled =>
          /\ \A g \in 1..Len(videos) :
               file.name \in Paths(videos'[g]) =>
                   ts < videos[g].end_time + GapTicks
          /\ (\A g \in 1..Len(videos) : ts >= videos[g].end_time + GapTicks) =>
               /\ Len(videos') = Len(videos) + 1
               /\ SubSeq(videos', 1, Len(videos)) = videos
               /\ Last(videos').start_time = ts
               /\ Last(videos').end_time = ts

C5_Example ==
    (/\ Len(files) = 3
     /\ \A k \in 1..3 : Known(files[k])
     /\ <<StampOf(1), StampOf(2), StampOf(3)>> = <<0, 1, 6>>) =>
        /\ Len(videos) = 2
        /\ Paths(videos[1]) = {1, 2}
        /\ Paths(videos[2]) = {3}

C5_StrictWindow == [][C5_Step]_vars /\ []C5_Example

\* a file exactly two hours after the end of the only group started a second
C5_Witness ==
    /\ Len(files) = 2
    /\ Known(files[1]) /\ Known(files[2])
    /\ StampOf(2) = StampOf(1) + GapTicks
    /\ Len(videos) = 2
    /\ Paths(videos[2]) = {2}

----------------------------------------------------------------------------
(* Vocabulary of the statements about make_video *)

RECURSIVE Flatten(_)
Flatten(qs) == IF qs = << >> THEN << >> ELSE Head(qs) \o Flatten(Tail(qs))

Sizes(qs) == [k \in 1..Len(qs) |-> Len(qs[k])]

\* the group of the last call of make_video that got past the early return
Called == videos[batches.group]

\* make_video is about to be called on a group whose final file exists
CallOnExisting ==
    /\ pc = "render"
    /\ next_v <= Len(videos)
    /\ FinalFile(videos[next_v].title) \in fs

----------------------------------------------------------------------------
(* C6: for a group of F front and B back clips make_video pairs the clips  *)
(* index-wise into min(F,B) pairs in discovery order and cuts them into    *)
(* ceil(min(F,B)/4) consecutive chunks of 1 to 4 pairs, only the last of   *)
(* which may be shorter than 4, whose concatenation is the pair sequence;  *)
(* 5 front / 3 back give one chunk of 3, 9 / 9 give chunks of 4, 4, 1.     *)
C6_PairsAndChunks ==
    batches.group # 0 =>
        LET F == Len(Called.front_videos)
            B == Len(Called.back_videos)
            n == IF F <= B THEN F ELSE B
            pairs == batches.pairs
            bs == batches.batches
        IN  /\ Len(pairs) = n
            /\ \A i \in 1..n :
                 pairs[i] = <<Called.front_videos[i], Called.back_videos[i]>>
            /\ Len(bs) = (n + 3) \div 4
            /\ \A k \in 1..Len(bs) : Len(bs[k]) >= 1 /\ Len(bs[k]) <= 4
            /\ \A k \in 1..(Len(bs) - 1) : Len(bs[k]) = 4
            /\ Flatten(bs) = pairs
            /\ (F = 5 /\ B = 3) => Sizes(bs) = <<3>>
            /\ (F = 9 /\ B = 9) => Sizes(bs) = <<4, 4, 1>>

\* make_video has cut the 9 pairs of a 9 / 9 group into three chunks
C6_Witness ==
    /\ batches.group = 1
    /\ Len(Called.front_videos) = 9
    /\ Len(Called.back_videos) = 9
    /\ Sizes(batches.batches) = <<4, 4, 1>>

(* C7: a call of make_video on a group whose final output file exists      *)
(* starts no encoder (no chunk render, no merge) and creates no file; so   *)
(* a second call after the call that produced the final file starts none.  *)
C7_ExistingFinalSkips ==
    [][CallOnExisting =>
         /\ runs' = runs
         /\ fs' = fs
         /\ videos' = videos
         /\ next_v' = next_v + 1]_vars

\* the second group has the title of the first, whose call produced the
\* final file: the call on the second started nothing
C7_Witness ==
    /\ Len(videos) = 2
    /\ next_v = 3
    /\ videos[1].title = videos[2].title
    /\ Len(videos[2].front_videos) > 0 /\ Len(videos[2].back_videos) > 0
    /\ Len(runs) > 0
    /\ \A i \in 1..Len(runs) : runs[i].group = 1
    /\ runs[Len(runs)].kind = "merge" /\ runs[Len(runs)].returncode = 0
    /\ FinalFile(videos[2].title) \in fs
    /\ videos[2].final_video = None

(* C8: when the encoder run of chunk i of a group exits non-zero,          *)
(* make_video raises, no run of a later chunk of the group and no merge    *)
(* of the group is started, and the group's final_video stays unset.       *)
C8_FailedChunkAborts ==
    \A i \in 1..Len(runs) :
        (runs[i].kind = "batch" /\ runs[i].returncode # 0) =>
            /\ pc = "raised"
            /\ \A j \in (i + 1)..Len(runs) : runs[j].group # runs[i].group
            /\ videos[runs[i].group].final_video = None

\* the second of three chunks failed: two runs, no third, no merge
C8_Witness ==
    /\ Len(batches.batches) = 3
    /\ Len(runs) = 2
    /\ runs[1].kind = "batch" /\ runs[1].returncode = 0
    /\ runs[2].kind = "batch" /\ runs[2].index = 1 /\ runs[2].returncode # 0
    /\ pc = "raised"

(* C9: when the merge run of a group exits non-zero, make_video reports    *)
(* an error and the group is not marked as rendered: final_video is not    *)
(* set to the output path.                                                 *)
C9_FailedMergeNotMarked ==
    \A i \in 1..Len(runs) :
        (runs[i].kind = "merge" /\ runs[i].returncode # 0) =>
            videos[runs[i].group].final_video = None

(* C10: an encoder failure while rendering one group does not keep the     *)
(* render loop from calling make_video on every later group: when the      *)
(* program has stopped, no group of the list is left without its call.     *)
C10_LaterGroupsAttempted ==
    /\ pc = "done" => next_v > Len(videos)
    /\ pc = "raised" => next_v >= Len(videos)

----------------------------------------------------------------------------
(* C11: a file whose name does not parse as a YYYYMMDD_HHMMSS timestamp is *)
(* left out of every group and does not abort the scan: get_videos goes    *)
(* on with the next file of the listing, the groups built so far kept.     *)
C11_BadNameSkipped ==
    [][(Len(files') = Len(files) + 1 /\ ~Parses(Last(files').file)) =>
         /\ pc' = "scan"
         /\ videos' = videos
         /\ probe_cmd' = probe_cmd]_vars

(* C12: the merge of a group starts only after every chunk run of the      *)
(* group has completed, the chunk runs are started in increasing chunk     *)
(* index, and the inputs of the merge are exactly the intermediate files   *)
(* of all chunks, one per chunk, in chunk order, with concat count n the   *)
(* number of chunks.                                                       *)
C12_MergeAfterAllChunks ==
    /\ \A i \in 1..Len(runs) :
         runs[i].kind = "batch" =>
            \* the runs of the group before this one are its earlier chunks
            /\ runs[i].index < i
            /\ \A k \in 0..(runs[i].index - 1) :
                 LET r == runs[i - runs[i].index + k]
                 IN  r.group = runs[i].group /\ r.kind = "batch" /\ r.index = k
            /\ (i - runs[i].index > 1) =>
                 runs[i - runs[i].index - 1].group # runs[i].group
    /\ \A i \in 1..Len(runs) :
         runs[i].kind = "merge" =>
            LET g == videos[runs[i].group]
                F == Len(g.front_videos)
                B == Len(g.back_videos)
                chunks == ((IF F <= B THEN F ELSE B) + 3) \div 4
            IN  /\ runs[i].n = chunks
                /\ Len(runs[i].inputs) = chunks
                /\ i > chunks
                /\ \A k \in 1..chunks :
                     LET r == runs[i - chunks + k - 1]
                     IN  /\ r.group = runs[i].group
                         /\ r.kind = "batch"
                         /\ r.index = k - 1
                         /\ r.returncode = 0
                         /\ r.output = [title |-> g.title, index |-> <<k - 1>>]
                         /\ runs[i].inputs[k] = r.output
                /\ \A j \in (i + 1)..Len(runs) : runs[j].group # runs[i].group

\* three chunks were rendered in order and then merged
C12_Witness ==
    /\ Len(runs) = 4
    /\ \A k \in 1..3 : runs[k].kind = "batch" /\ runs[k].index = k - 1
    /\ runs[4].kind = "merge" /\ runs[4].n = 3
    /\ runs[4].returncode = 0

(* C13: when get_videos creates a group for a file that no existing group  *)
(* accepts, the start_time and end_time of the new group are the file's    *)
(* timestamp and the group holds exactly that file in its front/back       *)
(* sequences; so every group of the list holds at least one clip.          *)
C13_NewGroupHoldsItsFile ==
    [][Handled =>
         /\ Len(videos') = Len(videos) + 1 =>
              /\ Last(videos').start_time = Last(files').file.prefix[1]
              /\ Last(videos').end_time = Last(files').file.prefix[1]
              /\ Paths(Last(videos')) = {Last(files').file.name}
         /\ \A g \in 1..Len(videos') : Paths(videos'[g]) # {}]_vars

(* C14: a failed duration probe does not change the probe of any later     *)
(* file: whenever get_videos is about to probe a file, after any earlier   *)
(* successful or failed calls on the shared PROBE object, the command      *)
(* vector is [probe_path] alone and names no earlier input file.           *)
C14_ProbeCmdClean == pc = "scan" => probe_cmd = << >>


----------------------------------------------------------------------------
(* Vocabulary of the claims on a chunk's command *)

\* the runs of chunks made by the make_video call that `batches` records
ChunkRuns ==
    {i \in 1..Len(runs) :
        runs[i].kind = "batch" /\ runs[i].group = batches.group}

\* the pairs of the chunk a run rendered
ChunkOf(run) == batches.batches[run.index + 1]

\* the labels of input streams: "i:v", "i:a" and the silent "a_i"
IsStreamLabel(label) == label[1] \in {":v", ":a", "a_"}

\* the stream labels a command consumes or defines, in the order of its graph
RECURSIVE LabelsOf(_)
LabelsOf(graph) ==
    IF graph = << >> THEN << >>
    ELSE LET fragment == graph[1]
             used == SelectSeq(fragment.in, IsStreamLabel)
         IN  used \o LabelsOf(Tail(graph))

NoRepeat(q) == \A i, j \in 1..Len(q) : q[i] = q[j] => i = j

\* the fragments of a graph with the given operation
Fragments(graph, op) == SelectSeq(graph, LAMBDA fragment : fragment.op = op)

\* the Parked Front clips of a chunk
ParkedFronts(chunk) ==
    {k \in 1..Len(chunk) :
        chunk[k][1].type_ = "Parked" /\ chunk[k][1].view_point = "Front"}

(* C15: every chunk's command is built on a reset builder: it holds exactly  *)
(* 2*len(chunk) inputs, the k-th pair (from 0) as input 2k (front) and 2k+1  *)
(* (back), its graph holds only the fragments of this chunk (one silent      *)
(* audio per Parked Front clip, two concats, a scale, an overlay), and the   *)
(* stream labels the graph consumes are distinct and lie in                  *)
(* 0..2*len(chunk)-1.                                                        *)
C15_ChunkCommandFresh ==
    \A i \in ChunkRuns :
        LET run == runs[i]
            chunk == ChunkOf(run)
            m == Len(chunk)
            concats == Fragments(run.graph, "concat")
            labels == LabelsOf(run.graph)
        IN  /\ Len(run.inputs) = 2 * m
            /\ \A k \in 0..(m - 1) :
                   /\ run.inputs[2 * k + 1] = chunk[k + 1][1].path
                   /\ run.inputs[2 * k + 2] = chunk[k + 1][2].path
            /\ Len(run.graph) = Cardinality(ParkedFronts(chunk)) + 4
            /\ Len(concats) = 2
            /\ concats[1].arg = m /\ concats[2].arg = m
            /\ \A k \in 0..(m - 1) :
                   /\ concats[1].in[2 * k + 1] = <<":v", 2 * k>>
                   /\ concats[1].in[2 * k + 2][2] = 2 * k
                   /\ concats[2].in[k + 1] = <<":v", 2 * k + 1>>
            /\ NoRepeat(labels)
            /\ \A j \in 1..Len(labels) : labels[j][2] \in 0..(2 * m - 1)
            /\ run.maps = << <<"v", 0>>, <<"front_a", 0>> >>
            /\ Len(run.output.index) = 1 /\ run.output.index[1] = run.index

\* the third chunk of a group of nine pairs has been rendered after two full ones
C15_Witness ==
    /\ Len(runs) >= 3
    /\ runs[2].kind = "batch" /\ runs[2].index = 1 /\ Len(runs[2].inputs) = 8
    /\ runs[3].kind = "batch" /\ runs[3].index = 2 /\ Len(runs[3].inputs) = 2
    /\ runs[3].group = batches.group


(* C16: a group with no front/back pair (no front clips or no back clips)    *)
(* causes no encoder invocation, chunk or merge, and its final_video stays   *)
(* unset.                                                                    *)
C16_NoMergeWithoutChunks ==
    \A g \in 1..Len(videos) :
        (videos[g].front_videos = << >> \/ videos[g].back_videos = << >>) =>
            /\ \A i \in 1..Len(runs) : runs[i].group # g
            /\ videos[g].final_video = None

(* C17: whatever files get_videos has processed, every group has            *)
(* start_time <= end_time, and no step changes the start_time of a group     *)
(* that already exists.                                                      *)
C17_StartNotAfterEnd ==
    [][\A g \in 1..Len(videos') :
          /\ videos'[g].start_time <= videos'[g].end_time
          /\ g <= Len(videos) =>
                videos'[g].start_time = videos[g].start_time]_vars

\* the places of a graph where the silent audio "a_i" is defined
SilentAt(graph, i) ==
    {p \in 1..Len(graph) :
        graph[p].op = "anullsrc" /\ graph[p].out = << <<"a_", i>> >>}

\* the place of the front concat in a graph: its first concat fragment
FrontConcatAt(graph) ==
    Min({p \in 1..Len(graph) : graph[p].op = "concat"})

(* C18: in every chunk's command a Parked Front clip added as input i has    *)
(* one silent-audio fragment defining a_i, of the clip's duration, placed    *)
(* before the front concat, which consumes a_i as the clip's audio; every    *)
(* other clip has the audio label i:a and no silent-audio fragment.          *)
C18_SilentAudioForParkedFront ==
    \A r \in ChunkRuns :
        LET graph == runs[r].graph
            chunk == ChunkOf(runs[r])
            front == graph[FrontConcatAt(graph)]
        IN  \A k \in 0..(Len(chunk) - 1) :
                LET f == chunk[k + 1][1]
                    b == chunk[k + 1][2]
                    before == [FFMPEG_defaults EXCEPT !.input_count = 2 * k + 1]
                IN  /\ IF f.type_ = "Parked"
                       THEN /\ Cardinality(SilentAt(graph, 2 * k)) = 1
                            /\ \A p \in SilentAt(graph, 2 * k) :
                                   /\ p < FrontConcatAt(graph)
                                   /\ graph[p].arg = Value(f.duration_seconds)
                            /\ front.in[2 * k + 2] = <<"a_", 2 * k>>
                       ELSE /\ SilentAt(graph, 2 * k) = {}
                            /\ front.in[2 * k + 2] = <<":a", 2 * k>>
                    /\ SilentAt(graph, 2 * k + 1) = {}
                    /\ add_as_ffmpeg_input(before, b).streams[2]
                          = <<":a", 2 * k + 1>>

\* a chunk with a Parked and a Moving front clip has been rendered
C18_Witness ==
    \E r \in ChunkRuns :
        LET chunk == ChunkOf(runs[r])
        IN  /\ \E k \in 1..Len(chunk) : chunk[k][1].type_ = "Parked"
            /\ \E k \in 1..Len(chunk) : chunk[k][1].type_ = "Moving"
            /\ \E k \in 1..Len(chunk) : chunk[k][2].type_ = "Parked"
            /\ Len(Fragments(runs[r].graph, "anullsrc")) = 2
=============================================================================
